---------------------------- MODULE Spec2Model ----------------------------
(***************************************************************************)
(* A model of the NLP query engine for employee data: the query            *)
(* classifier and engine (services/query_engine.py), the SQL generation    *)
(* boundary (services/text_to_sql.py), the cache object and its wrapping   *)
(* decorator (core/cache.py), the keyword document index                   *)
(* (services/document_processor.py) and the HTTP routes (api/routes).      *)
(*                                                                         *)
(* Text is modelled as a sequence of one-character strings, so that        *)
(* lowercasing, substring search, splitting and trimming are computed and  *)
(* not assumed.                                                            *)
(***************************************************************************)
EXTENDS Integers, Sequences, FiniteSets, TLC

VARIABLES
    documents,      \* KeywordDocumentProcessor.documents
    keyword_index,  \* KeywordDocumentProcessor.keyword_index (keyword -> list of ids)
    index_file,     \* the persisted keyword_index.json
    batch,          \* the process_documents call in progress, if any
    job_status,     \* documents.py job_status (job id -> status record)
    tasks,          \* background tasks added and not yet started
    query_history,  \* query.py query_history
    sessions,       \* the database sessions get_db has handed to requests
    clock,          \* wall-clock time in seconds
    calls,          \* per-key record of the cache calls made so far
    sql_calls,      \* the two most recent calls of the cached SQL handler
    input,          \* the argument of the pure function under check
    assigned,       \* history: how many document ids have ever been given out
    last            \* what the most recent operation returned to its caller

vars == <<documents, keyword_index, index_file, batch, job_status, tasks,
          query_history, sessions, clock, calls, sql_calls, input, assigned, last>>

indexVars == <<documents, keyword_index, index_file, batch, assigned>>
routeVars == <<job_status, tasks, query_history, sessions>>
cacheVars == <<clock, calls, sql_calls>>

-----------------------------------------------------------------------------
(* Text helpers: Python str operations on sequences of characters.          *)

UpperLetters == <<"A","B","C","D","E","F","G","H","I","J","K","L","M",
                  "N","O","P","Q","R","S","T","U","V","W","X","Y","Z">>
LowerLetters == <<"a","b","c","d","e","f","g","h","i","j","k","l","m",
                  "n","o","p","q","r","s","t","u","v","w","x","y","z">>
Digits == {"0","1","2","3","4","5","6","7","8","9"}
Whitespace == {" ", "\n", "\t"}

Range(s) == {s[i] : i \in DOMAIN s}

UpperSet == Range(UpperLetters)
LowerSet == Range(LowerLetters)
Letters == UpperSet \cup LowerSet
\* the regex class \w
WordChars == Letters \cup Digits \cup {"_"}

ToLower == [c \in UpperSet |->
               LowerLetters[CHOOSE i \in DOMAIN UpperLetters : UpperLetters[i] = c]]
ToUpper == [c \in LowerSet |->
               UpperLetters[CHOOSE i \in DOMAIN LowerLetters : LowerLetters[i] = c]]

IsAlpha(c) == c \in Letters
IsWordChar(c) == c \in WordChars
LowerChar(c) == IF c \in UpperSet THEN ToLower[c] ELSE c
UpperChar(c) == IF c \in LowerSet THEN ToUpper[c] ELSE c

\* str.lower(), str.upper()
Lower(s) == [i \in 1..Len(s) |-> LowerChar(s[i])]
Upper(s) == [i \in 1..Len(s) |-> UpperChar(s[i])]

\* sub in s
Contains(s, sub) ==
    \E i \in 0..(Len(s) - Len(sub)) : SubSeq(s, i + 1, i + Len(sub)) = sub

\* s.startswith(p), s.endswith(p)
StartsWith(s, p) == Len(p) <= Len(s) /\ SubSeq(s, 1, Len(p)) = p
EndsWith(s, p) == Len(p) <= Len(s) /\ SubSeq(s, Len(s) - Len(p) + 1, Len(s)) = p

\* s.lstrip(chars), s.rstrip(chars), s.strip()
LStripOf(s, cs) ==
    LET keep == {i \in 1..Len(s) : s[i] \notin cs}
    IN IF keep = {} THEN <<>>
       ELSE SubSeq(s, CHOOSE i \in keep : \A j \in keep : i <= j, Len(s))
RStripOf(s, cs) ==
    LET keep == {i \in 1..Len(s) : s[i] \notin cs}
    IN IF keep = {} THEN <<>>
       ELSE SubSeq(s, 1, CHOOSE i \in keep : \A j \in keep : i >= j)
Strip(s) == RStripOf(LStripOf(s, Whitespace), Whitespace)

\* s.split(c)[-1]: what follows the last occurrence of c (all of s when none)
AfterLast(s, c) ==
    LET at == {i \in 1..Len(s) : s[i] = c}
    IN IF at = {} THEN s
       ELSE SubSeq(s, (CHOOSE i \in at : \A j \in at : i >= j) + 1, Len(s))

\* the elements of a list joined by sep
RECURSIVE Join(_, _)
Join(ss, sep) ==
    IF ss = <<>> THEN <<>>
    ELSE IF Len(ss) = 1 THEN ss[1]
    ELSE ss[1] \o sep \o Join(Tail(ss), sep)

-----------------------------------------------------------------------------
(* QueryEngine._classify_query                                              *)

\* a variant of sql_keywords with "list" where the code has "list all"
sql_keywords_typo ==
    << <<"h","o","w"," ","m","a","n","y">>,
       <<"c","o","u","n","t">>,
       <<"a","v","e","r","a","g","e">>,
       <<"t","o","t","a","l">>,
       <<"s","u","m">>,
       <<"l","i","s","t">>,
       <<"s","h","o","w"," ","m","e">>,
       <<"f","i","n","d"," ","e","m","p","l","o","y","e","e","s">>,
       <<"d","e","p","a","r","t","m","e","n","t">>,
       <<"s","a","l","a","r","y">>,
       <<"h","i","g","h","e","s","t">>,
       <<"l","o","w","e","s","t">>,
       <<"h","i","r","e","d">> >>

sql_keywords ==
    << <<"h","o","w"," ","m","a","n","y">>,
       <<"c","o","u","n","t">>,
       <<"a","v","e","r","a","g","e">>,
       <<"t","o","t","a","l">>,
       <<"s","u","m">>,
       <<"l","i","s","t"," ","a","l","l">>,
       <<"s","h","o","w"," ","m","e">>,
       <<"f","i","n","d"," ","e","m","p","l","o","y","e","e","s">>,
       <<"d","e","p","a","r","t","m","e","n","t">>,
       <<"s","a","l","a","r","y">>,
       <<"h","i","g","h","e","s","t">>,
       <<"l","o","w","e","s","t">>,
       <<"h","i","r","e","d">> >>

doc_keywords ==
    << <<"s","k","i","l","l","s">>,
       <<"e","x","p","e","r","i","e","n","c","e">>,
       <<"r","e","s","u","m","e">>,
       <<"r","e","v","i","e","w">>,
       <<"p","e","r","f","o","r","m","a","n","c","e">>,
       <<"f","e","e","d","b","a","c","k">>,
       <<"q","u","a","l","i","f","i","e","d">>,
       <<"e","x","p","e","r","t","i","s","e">>,
       <<"p","y","t","h","o","n">>,
       <<"j","a","v","a","s","c","r","i","p","t">>,
       <<"j","a","v","a">> >>

\* sum(1 for kw in keywords if kw in query_lower)
Score(keywords, query) ==
    Cardinality({i \in DOMAIN keywords : Contains(Lower(query), keywords[i])})

sql_score(query) == Score(sql_keywords, query)
doc_score(query) == Score(doc_keywords, query)

\* a variant of Decide that takes either count alone for hybrid
Decide_either(s, d) ==
    IF s > 0 \/ d > 0 THEN "hybrid"
    ELSE IF s > d THEN "sql"
    ELSE IF d > 0 THEN "document"
    ELSE "sql"

\* the if/elif chain on the two scores
Decide(s, d) ==
    IF s > 0 /\ d > 0 THEN "hybrid"
    ELSE IF s > d THEN "sql"
    ELSE IF d > 0 THEN "document"
    ELSE "sql"

_classify_query(query) == Decide(sql_score(query), doc_score(query))

-----------------------------------------------------------------------------
(* Bounds of the model.                                                     *)

MaxDocs == 2        \* documents the index may hold
MaxBatch == 2       \* file paths in one process_documents call
MaxJobs == 1        \* upload jobs per process lifetime
MaxElapsedMs == 1   \* elapsed wall-clock time of one process_query, in ms
MaxClock == 300     \* the clock stops here
MaxQueryPieces == 3 \* phrases joined into one query for the classifier
TickSeconds == 150  \* the clock advances in steps of this many seconds
MaxRequests == 2    \* requests that hold a database session at one time

-----------------------------------------------------------------------------
(* KeywordDocumentProcessor                                                 *)

stopwords ==
    { <<"t","h","e">>, <<"i","s">>, <<"a","t">>, <<"w","h","i","c","h">>,
      <<"o","n">>, <<"a","n","d">>, <<"a">>, <<"a","n">>, <<"a","s">>,
      <<"a","r","e">>, <<"w","a","s">>, <<"w","e","r","e">>,
      <<"b","e","e","n">>, <<"b","e">>, <<"h","a","v","e">>, <<"h","a","s">>,
      <<"h","a","d">>, <<"d","o">>, <<"d","o","e","s">>, <<"d","i","d">>,
      <<"w","i","l","l">>, <<"w","o","u","l","d">>,
      <<"s","h","o","u","l","d">>, <<"c","o","u","l","d">>, <<"m","a","y">>,
      <<"m","i","g","h","t">>, <<"m","u","s","t">>, <<"c","a","n">>,
      <<"t","h","i","s">>, <<"t","h","a","t">>, <<"t","h","e","s","e">>,
      <<"t","h","o","s","e">>, <<"w","i","t","h">>, <<"f","r","o","m">>,
      <<"f","o","r">>, <<"b","u","t">>, <<"n","o","t">>, <<"a","l","l">>,
      <<"a","n","y">>, <<"s","o","m","e">>, <<"s","u","c","h">>,
      <<"i","n","t","o">>, <<"j","u","s","t">>, <<"t","h","a","n">>,
      <<"v","e","r","y">>, <<"t","o","o">>, <<"a","l","s","o">>,
      <<"o","n","l","y">>, <<"t","h","e","n">>, <<"w","h","e","n">>,
      <<"w","h","e","r","e">>, <<"h","o","w">>, <<"w","h","y">> }

\* where the run of \w characters that starts at i ends
RECURSIVE RunEnd(_, _)
RunEnd(s, i) == IF i < Len(s) /\ IsWordChar(s[i + 1]) THEN RunEnd(s, i + 1) ELSE i

\* re.findall(r'\b[a-zA-Z]{3,}\b', text.lower()), as a set: a match is a
\* maximal run of \w characters, all of them letters, at least 3 long
Tokens(text) ==
    LET s == Lower(text)
        starts == {i \in 1..Len(s) :
                        IsWordChar(s[i]) /\ (i = 1 \/ ~IsWordChar(s[i - 1]))}
        runs == {SubSeq(s, i, RunEnd(s, i)) : i \in starts}
    IN {w \in runs : Len(w) >= 3 /\ \A k \in DOMAIN w : IsAlpha(w[k])}

_extract_keywords(text) ==
    {w \in Tokens(text) : w \notin stopwords /\ Len(w) > 2}

\* A file on disk: its path, and what reading it gives (text, or a fault
\* raised by open/PyPDF2/docx).
File(path, readable, text) == [path |-> path, readable |-> readable, text |-> text]

S_txt == <<"t","x","t">>
S_pdf == <<"p","d","f">>
S_docx == <<"d","o","c","x">>

Raised(e) == [raised |-> TRUE, error |-> e]
Returned(v) == [raised |-> FALSE, value |-> v]

_extract_text(f) ==
    LET ext == Lower(AfterLast(f.path, "."))
    IN IF ext \in {S_pdf, S_docx, S_txt}
       THEN IF f.readable THEN Returned(f.text) ELSE Raised("extraction fault")
       ELSE Raised("ValueError: Unsupported file type")

\* os.path.basename
basename(path) == AfterLast(path, "/")

PreviewLen == 200

\* text[:200] + "..." if len(text) > 200 else text
Preview(text) ==
    IF Len(text) > PreviewLen
    THEN SubSeq(text, 1, PreviewLen) \o <<".", ".", ".">>
    ELSE text

NewResults == [processed |-> 0, failed |-> 0, total_documents |-> 0, documents |-> <<>>]

\* a variant of Post that posts a document only under keywords that are new
Post_new_keywords_only(idx, keywords, doc_id) ==
    LET ks == {Lower(k) : k \in keywords}
    IN [k \in DOMAIN idx \cup ks |->
            (IF k \in DOMAIN idx THEN idx[k] ELSE <<doc_id>>)]


\* keyword_index[keyword.lower()].append(doc_id) for every keyword
Post(idx, keywords, doc_id) ==
    LET ks == {Lower(k) : k \in keywords}
    IN [k \in DOMAIN idx \cup ks |->
            (IF k \in DOMAIN idx THEN idx[k] ELSE <<>>)
            \o (IF k \in ks THEN <<doc_id>> ELSE <<>>)]

Indexed(docs, idx, res, f, text) ==
    LET keywords == _extract_keywords(text)
        doc_id == Len(docs)
        doc == [id |-> doc_id, file |-> basename(f.path), text |-> text,
                keywords |-> keywords, preview |-> Preview(text)]
    IN [documents |-> Append(docs, doc),
        keyword_index |-> Post(idx, keywords, doc_id),
        results |-> [res EXCEPT !.processed = @ + 1,
                        !.documents = Append(@, [file |-> doc.file,
                                                 keywords_found |-> Cardinality(keywords)])]]

\* a variant of ProcessOne that stores a document before extracting its text
ProcessOne_store_first(docs, idx, res, f) ==
    LET x == _extract_text(f)
    IN IF x.raised
       THEN [documents |-> Append(docs, [id |-> Len(docs), file |-> basename(f.path),
                                         text |-> <<>>, keywords |-> {}, preview |-> <<>>]),
             keyword_index |-> idx,
             results |-> [res EXCEPT !.failed = @ + 1]]
       ELSE Indexed(docs, idx, res, f, x.value)

\* one iteration of the loop over file_paths: the try block and its except
ProcessOne(docs, idx, res, f) ==
    LET x == _extract_text(f)
    IN IF x.raised
       THEN [documents |-> docs, keyword_index |-> idx,
             results |-> [res EXCEPT !.failed = @ + 1]]
       ELSE Indexed(docs, idx, res, f, x.value)

\* a variant of Continue that leaves the loop at the first failure
Continue_abort(todo, failedBefore, failedAfter) ==
    IF failedAfter > failedBefore THEN <<>> ELSE Tail(todo)

\* the for loop goes on to the next path whatever the iteration did
Continue(todo, failedBefore, failedAfter) == Tail(todo)

Idle == [pc |-> "idle"]

\* json.dump of {"documents": ..., "keyword_index": ...}
Saved(docs, idx) ==
    [kind |-> "json", data |-> [documents |-> docs, keyword_index |-> idx]]
Missing == [kind |-> "missing"]
Garbage == [kind |-> "garbage"]


\* the orders in which a Python set of n elements may be iterated
Orders(S) ==
    {f \in [1..Cardinality(S) -> S] : \A i, j \in DOMAIN f : i # j => f[i] # f[j]}

\* the doc ids met, in order, while walking the posting lists of the query
\* keywords that are keys of the index
RECURSIVE Visits(_, _)
Visits(idx, order) ==
    IF order = <<>> THEN <<>>
    ELSE (IF Head(order) \in DOMAIN idx THEN idx[Head(order)] ELSE <<>>)
         \o Visits(idx, Tail(order))

Occurrences(h, d) == Cardinality({i \in DOMAIN h : h[i] = d})
FirstAt(h, d) == CHOOSE i \in DOMAIN h : h[i] = d /\ \A j \in DOMAIN h : h[j] = d => i <= j

\* sorted(doc_scores.items(), key=score, reverse=True): by score, highest
\* first; the sort is stable, so equal scores keep the order in which the
\* ids entered doc_scores
Ranked(h) ==
    LET ids == Range(h)
        Before(a, b) ==
            \/ Occurrences(h, a) > Occurrences(h, b)
            \/ Occurrences(h, a) = Occurrences(h, b) /\ FirstAt(h, a) < FirstAt(h, b)
    IN [i \in 1..Cardinality(ids) |->
            CHOOSE d \in ids : Cardinality({e \in ids : Before(e, d)}) = i - 1]

\* what search returns when the query keyword set is iterated in `order`
SearchIn(docs, idx, query_keywords, order, top_k) ==
    LET h == Visits(idx, order)
        ranked == Ranked(h)
        sorted_docs == SubSeq(ranked, 1, IF Len(ranked) < top_k THEN Len(ranked) ELSE top_k)
        Known(d) == d < Len(docs)
        kept == SelectSeq(sorted_docs, Known)
    IN [i \in 1..Len(kept) |->
            [id |-> docs[kept[i] + 1].id,
             file |-> docs[kept[i] + 1].file,
             text |-> docs[kept[i] + 1].text,
             keywords |-> docs[kept[i] + 1].keywords,
             preview |-> docs[kept[i] + 1].preview,
             match_score |-> Occurrences(h, kept[i]),
             matched_keywords |->
                {kw \in query_keywords : Lower(kw) \in docs[kept[i] + 1].keywords}]]

\* KeywordDocumentProcessor.search: the results it may return
search(docs, idx, query, top_k) ==
    LET query_keywords == _extract_keywords(query)
    IN IF query_keywords = {} THEN {<<>>}
       ELSE {SearchIn(docs, idx, query_keywords, order, top_k) :
                order \in Orders(query_keywords)}

-----------------------------------------------------------------------------
(* SmartCache and the cached decorator (core/cache.py)                      *)

\* what a SmartCache object has: the fields __init__ sets and the methods
\* the class defines
SmartCacheAttributes == {"use_redis", "redis_url", "client", "connect", "close"}

\* cache.<name>(...): the attribute lookup comes first, and raises for a
\* name the object does not have
CacheCall(name) ==
    IF name \in SmartCacheAttributes
    THEN Returned(name)
    ELSE Raised("AttributeError: 'SmartCache' object has no attribute")

\* cached(prefix, ttl).wrapper around a func that would return `payload`:
\* cache.cache_key, cache.get, func, cache.set in this order; the first that
\* raises ends the call
Wrapper(payload) ==
    IF CacheCall("cache_key").raised THEN CacheCall("cache_key")
    ELSE IF CacheCall("get").raised THEN CacheCall("get")
    ELSE IF CacheCall("set").raised THEN CacheCall("set")
    ELSE Returned(payload)

\* whether the wrapper gets as far as calling the function it wraps
FuncRuns == ~CacheCall("cache_key").raised /\ ~CacheCall("get").raised

SqlHandlerTtl == 300
SchemaTtl == 3600
TopK == 5

-----------------------------------------------------------------------------
(* QueryEngine.process_query                                                *)

\* dict.update
Merge(a, b) ==
    [k \in DOMAIN a \cup DOMAIN b |-> IF k \in DOMAIN b THEN b[k] ELSE a[k]]

None == [none |-> TRUE]

\* dict.get(key), None when the key is absent
Get(d, key) == IF key \in DOMAIN d THEN d[key] ELSE None

Degraded(user_query, e) ==
    [query |-> user_query, error |-> e, query_type |-> "unknown"]

\* QueryEngine._handle_sql_query as its callers see it: through the wrapper
_handle_sql_query(payload) == Wrapper(payload)

\* a variant of _handle_document_query that marks its payload as cached
_handle_document_query_flagged(found) ==
    [documents |-> found, count |-> Len(found), cached |-> TRUE]


\* QueryEngine._handle_document_query
_handle_document_query(found) == [documents |-> found, count |-> Len(found)]

Timed(result, elapsed) ==
    [result EXCEPT !.performance = [response_time |-> elapsed]]

\* process_query, given what the SQL handler's body would return, the
\* documents search returned and the elapsed time in ms
process_query(user_query, payload, found, elapsed) ==
    LET query_type == _classify_query(user_query)
        result == [query |-> user_query, query_type |-> query_type,
                   results |-> <<>>, sources |-> <<>>,
                   performance |-> <<>>, cached |-> FALSE]
        sql_results == _handle_sql_query(payload)
        doc_results == _handle_document_query(found)
    IN IF query_type = "sql"
       THEN IF sql_results.raised
            THEN Degraded(user_query, sql_results.error)
            ELSE Timed([Merge(result, sql_results.value)
                            EXCEPT !.results = Get(sql_results.value, "data"),
                                   !.sources = <<"database">>], elapsed)
       ELSE IF query_type = "document"
       THEN Timed([Merge(result, doc_results)
                       EXCEPT !.results = doc_results.documents,
                              !.sources = <<"documents">>], elapsed)
       ELSE IF sql_results.raised
            THEN Degraded(user_query, sql_results.error)
            ELSE Timed([result EXCEPT
                            !.results = [database |-> sql_results.value,
                                         documents |-> doc_results],
                            !.sources = <<"database", "documents">>], elapsed)


-----------------------------------------------------------------------------
(* TextToSQLConverter (services/text_to_sql.py)                             *)

S_sql == <<"s","q","l">>
S_SELECT == <<"S","E","L","E","C","T">>
S_LIMIT == <<"L","I","M","I","T">>
S_LIMIT_100 == <<" ","L","I","M","I","T"," ","1","0","0",";">>

\* the leftmost place where `word` stands in s, case-insensitively, with at
\* least one more character after it; 0 when there is none
FindBefore(s, word) ==
    LET at == {i \in 1..(Len(s) - Len(word)) :
                    Lower(SubSeq(s, i, i + Len(word) - 1)) = Lower(word)}
    IN IF at = {} THEN 0 ELSE CHOOSE i \in at : \A j \in at : i <= j

\* re.search(r'sql\s*(.+?)', text, DOTALL | IGNORECASE).group(1): \s* takes
\* the whitespace after "sql" and the lazy (.+?) one character, the next one;
\* when only whitespace follows, \s* gives its last character back
AfterSqlMarker(text) ==
    LET i == FindBefore(text, S_sql)
        after == SubSeq(text, i + 3, Len(text))
        rest == LStripOf(after, Whitespace)
    IN IF rest # <<>> THEN <<rest[1]>> ELSE <<after[Len(after)]>>

\* re.search(r'(SELECT.+?;?)', text, DOTALL | IGNORECASE).group(1): SELECT,
\* one character, and the ";" that may follow it
SelectMatch(text) ==
    LET i == FindBefore(text, S_SELECT)
        j == i + Len(S_SELECT)
    IN SubSeq(text, i, IF j < Len(text) /\ text[j + 1] = ";" THEN j + 1 ELSE j)

_extract_sql(text) ==
    IF FindBefore(text, S_sql) # 0 THEN Strip(AfterSqlMarker(text))
    ELSE IF FindBefore(text, S_SELECT) # 0
    THEN LET sql == Strip(SelectMatch(text))
         IN IF EndsWith(sql, <<";">>) THEN sql ELSE sql \o <<";">>
    ELSE Strip(text)

dangerous ==
    << <<"D","R","O","P">>, <<"D","E","L","E","T","E">>,
       <<"T","R","U","N","C","A","T","E">>, <<"A","L","T","E","R">>,
       <<"C","R","E","A","T","E">>, <<"U","P","D","A","T","E">> >>

DangerousMessage ==
    << "Dangerous operation: DROP", "Dangerous operation: DELETE",
       "Dangerous operation: TRUNCATE", "Dangerous operation: ALTER",
       "Dangerous operation: CREATE", "Dangerous operation: UPDATE" >>

_validate_sql(sql) ==
    LET sql_upper == Upper(sql)
        hits == {i \in DOMAIN dangerous : Contains(sql_upper, dangerous[i])}
    IN IF sql = <<>> THEN <<FALSE, "Empty SQL query">>
       ELSE IF hits # {}
       THEN <<FALSE, DangerousMessage[CHOOSE i \in hits : \A j \in hits : i <= j]>>
       ELSE IF ~StartsWith(Strip(sql_upper), S_SELECT)
       THEN <<FALSE, "Query must start with SELECT">>
       ELSE <<TRUE, "">>

_optimize_sql(sql) ==
    IF ~Contains(Upper(sql), S_LIMIT)
    THEN RStripOf(sql, {";"}) \o S_LIMIT_100
    ELSE sql

\* the names of the schema's tables that stand in the statement
_extract_tables(sql, tables) ==
    SelectSeq(tables, LAMBDA t : Contains(Upper(sql), Upper(t)))

\* the None that stands for "no statement" in generate_sql's result
NoSql == <<"None">>

\* generate_sql, given what model.generate_content did (`reply`: the
\* response text, or the fault it raised) and the schema's table names; the
\* prompt it builds decides nothing of the result
generate_sql(reply, tables) ==
    IF reply.raised THEN [sql |-> NoSql, error |-> reply.error]
    ELSE LET sql_text == reply.value
             sql == _extract_sql(sql_text)
             checked == _validate_sql(sql)
         IN IF ~checked[1]
            THEN [sql |-> NoSql, error |-> checked[2], explanation |-> sql_text]
            ELSE [sql |-> _optimize_sql(sql), explanation |-> sql_text,
                  tables_used |-> _extract_tables(_optimize_sql(sql), tables)]

\* the statement _handle_sql_query's body passes to session.execute; NoSql
\* when it returns before that, or when text(None) raises
Executed(reply, tables) ==
    LET sql_result == generate_sql(reply, tables)
    IN IF "error" \in DOMAIN sql_result /\ sql_result.error # "" THEN NoSql
       ELSE sql_result.sql

\* the body of _handle_sql_query, given the generator's reply and what the
\* session does with the statement (`db`: the rows, or the fault it raised)
HandlerBody(reply, tables, db) ==
    LET sql_result == generate_sql(reply, tables)
        sql_query == Executed(reply, tables)
    IN IF "error" \in DOMAIN sql_result /\ sql_result.error # ""
       THEN [error |-> sql_result.error]
       ELSE IF sql_query = NoSql \/ db.raised
       THEN [error |-> "SQL execution failed"]
       ELSE [sql |-> sql_query, data |-> db.value, row_count |-> Len(db.value)]


-----------------------------------------------------------------------------
(* The inputs of the model.                                                 *)

F_txt == File(<<"a",".","t","x","t">>, TRUE,
              <<"P","y","t","h","o","n"," ","s","k","i","l","l","s">>)
F_TXT == File(<<"b",".","T","X","T">>, TRUE,
              <<"T","h","e"," ","j","a","v","a"," ","r","e","v","i","e","w">>)
F_exe == File(<<"c",".","e","x","e">>, TRUE, <<"x">>)
F_pdf == File(<<"d",".","p","d","f">>, FALSE, <<>>)

Files == {F_txt, F_TXT, F_exe, F_pdf}

\* the file lists of at most n paths
FileLists(n) == UNION {[1..k -> Files] : k \in 0..n}

Q_how_many == <<"h","o","w"," ","m","a","n","y"," ","e","m","p","l","o","y","e","e","s">>
Q_python == <<"p","y","t","h","o","n"," ","S","K","I","L","L","S">>
Q_count_java == <<"c","o","u","n","t"," ","j","a","v","a"," ","s","k","i","l","l","s">>
Q_hello == <<"h","e","l","l","o">>

UserQueries == {Q_how_many, Q_python, Q_count_java, Q_hello}

\* what model.generate_content may do
Replies ==
    { Returned(<<"S","E","L","E","C","T"," ","*"," ","F","R","O","M"," ","t">>),
      Returned(<<"D","R","O","P"," ","T","A","B","L","E"," ","t">>),
      Raised("quota exceeded"), Raised("") }

\* what session.execute may do with a statement
DbOutcomes == {Returned(<<>>), Returned(<<[n |-> 1]>>), Raised("OperationalError")}

\* the table names of the connected schema
SchemaTables == << <<"t">> >>

\* what the body of _handle_sql_query may return to the wrapper; it returns
\* nothing when the wrapper never calls it
SqlPayloads ==
    IF FuncRuns
    THEN {HandlerBody(reply, SchemaTables, db) : reply \in Replies, db \in DbOutcomes}
    ELSE {[error |-> "not called"]}


\* an uploaded file: its name, its size in bytes and what reading the saved
\* copy gives
Upload(filename, size, readable, text) ==
    [filename |-> filename, size |-> size, readable |-> readable, text |-> text]

MAX_UPLOAD_SIZE == 10 * 1024 * 1024
UPLOAD_DIR == <<"d","a","t","a","/","u","p","l","o","a","d","s">>
HistoryLimit == 50

U_txt == Upload(F_txt.path, 10, TRUE, F_txt.text)
U_pdf == Upload(F_pdf.path, MAX_UPLOAD_SIZE, FALSE, <<>>)
U_exe == Upload(F_exe.path, 10, TRUE, F_exe.text)
U_big == Upload(F_TXT.path, MAX_UPLOAD_SIZE + 1, TRUE, F_TXT.text)

U_TXT == Upload(F_TXT.path, 10, TRUE, F_TXT.text)

Uploads == {U_txt, U_pdf, U_exe, U_big, U_TXT}
UploadLists(n) == UNION {[1..k -> Uploads] : k \in 1..n}

CacheKeys == {"database_schema", "k"}
CacheValues == {"v", "w"}
NoCall == [set |-> FALSE, stored |-> FALSE, value |-> "", at |-> 0, ttl |-> 0]

\* no request holds a session
NoSessions == [r \in 1..MaxRequests |-> [pc |-> "none", exit |-> "", log |-> <<>>]]

-----------------------------------------------------------------------------
(* The state after start-up.                                                *)

\* dict.get(key, default)
GetOr(d, key, default) == IF key \in DOMAIN d THEN d[key] ELSE default

\* KeywordDocumentProcessor.__init__ and _load_index: both fields empty, and
\* then what the index file holds when it parses
_load_index(file) ==
    IF file.kind = "json"
    THEN [documents |-> GetOr(file.data, "documents", <<>>),
          keyword_index |-> GetOr(file.data, "keyword_index", <<>>)]
    ELSE IF file.kind = "json, keyword_index not an object"
    THEN \* .items() raises after self.documents has been assigned
         [documents |-> GetOr(file.data, "documents", <<>>), keyword_index |-> <<>>]
    ELSE [documents |-> <<>>, keyword_index |-> <<>>]

Boot ==
    /\ documents = _load_index(Missing).documents
    /\ keyword_index = _load_index(Missing).keyword_index
    /\ index_file = Missing
    /\ batch = Idle
    /\ job_status = <<>>
    /\ tasks = {}
    /\ query_history = <<>>
    /\ sessions = NoSessions
    /\ clock = 0
    /\ calls = [k \in CacheKeys |-> NoCall]
    /\ sql_calls = <<>>
    /\ assigned = 0
    /\ last = [kind |-> "start"]

Init == Boot /\ input = <<>>

-----------------------------------------------------------------------------
(* KeywordDocumentProcessor.process_documents, one file at a time.  The     *)
(* coroutine never awaits inside its loop, so nothing else runs between     *)
(* its steps.                                                               *)

RECURSIVE Queued(_)
Queued(ts) ==
    IF ts = {} THEN 0
    ELSE LET t == CHOOSE t \in ts : TRUE
         IN Len(t.file_paths) + Queued(ts \ {t})

\* room for n more documents within the bound of the model
Room(n) == Len(documents) + Queued(tasks) + n <= MaxDocs

Begin(job, file_paths) ==
    [pc |-> "loop", job |-> job, file_paths |-> file_paths, todo |-> file_paths,
     results |-> NewResults]

\* a direct call of process_documents(file_paths)
Ingest(file_paths) ==
    /\ batch.pc = "idle"
    /\ Room(Len(file_paths))
    /\ batch' = Begin(0, file_paths)
    /\ last' = [kind |-> "call"]
    /\ UNCHANGED <<documents, keyword_index, index_file, assigned, routeVars, cacheVars, input>>

\* process_documents_task(job_id, file_paths) starts
StartTask(t) ==
    /\ batch.pc = "idle"
    /\ t \in tasks
    /\ tasks' = tasks \ {t}
    /\ batch' = Begin(t.job, t.file_paths)
    /\ last' = [kind |-> "call"]
    /\ UNCHANGED <<documents, keyword_index, index_file, assigned, job_status,
                   query_history, sessions, cacheVars, input>>

ProcessFile ==
    /\ batch.pc = "loop"
    /\ batch.todo # <<>>
    /\ LET r == ProcessOne(documents, keyword_index, batch.results, Head(batch.todo))
       IN /\ documents' = r.documents
          /\ keyword_index' = r.keyword_index
          /\ batch' = [batch EXCEPT
                          !.results = r.results,
                          !.todo = Continue(batch.todo, batch.results.failed,
                                            r.results.failed)]
    /\ assigned' = IF Len(documents') > assigned THEN Len(documents') ELSE assigned
    /\ UNCHANGED <<index_file, routeVars, cacheVars, input, last>>

\* _save_index: the file is rewritten, or open() fails and it is left as it
\* was, or the write fails part-way and leaves a truncated file; the fault is
\* logged and swallowed
SaveOutcomes == {"written", "not opened", "truncated"}

_save_index(file, docs, idx, outcome) ==
    IF outcome = "written" THEN Saved(docs, idx)
    ELSE IF outcome = "truncated" THEN Garbage
    ELSE file

\* a variant of Completed that leaves the job in status processing
Completed_not_marked(result) ==
    [status |-> "processing", progress |-> "1.0", processed |-> result.processed,
     total |-> result.processed + result.failed, details |-> result]

\* what process_documents_task writes when process_documents has returned
Completed(result) ==
    [status |-> "completed", progress |-> "1.0", processed |-> result.processed,
     total |-> result.processed + result.failed, details |-> result]

\* the loop is over: total_documents, _save_index, return
FinishBatch(outcome) ==
    /\ batch.pc = "loop"
    /\ batch.todo = <<>>
    /\ LET result == [batch.results EXCEPT !.total_documents = Len(documents)]
       IN /\ index_file' = _save_index(index_file, documents, keyword_index, outcome)
          /\ last' = [kind |-> "process_documents", job |-> batch.job,
                      file_paths |-> batch.file_paths, result |-> Returned(result)]
          /\ job_status' = IF batch.job = 0 THEN job_status
                           ELSE [job_status EXCEPT ![batch.job] = Completed(result)]
    /\ batch' = Idle
    /\ UNCHANGED <<documents, keyword_index, assigned, tasks, query_history, sessions,
                   cacheVars, input>>

\* the process stops and starts again: the module-level state is rebuilt and
\* the index is loaded from its file
Restart ==
    /\ batch.pc = "idle"
    /\ documents' = _load_index(index_file).documents
    /\ keyword_index' = _load_index(index_file).keyword_index
    /\ job_status' = <<>>
    /\ tasks' = {}
    /\ query_history' = <<>>
    /\ sessions' = NoSessions
    /\ calls' = [k \in CacheKeys |-> NoCall]
    /\ last' = [kind |-> "start"]
    /\ UNCHANGED <<index_file, batch, clock, sql_calls, assigned, input>>


-----------------------------------------------------------------------------
(* api/routes/documents.py                                                  *)

AllowedExtensions == {S_pdf, S_docx, S_txt}

\* the first unused job id: uuid4 gives a fresh one
NewJob == CHOOSE j \in 1..MaxJobs : j \notin DOMAIN job_status /\
              \A i \in 1..MaxJobs : i \notin DOMAIN job_status => j <= i
\* str(job_id), as far as the model needs it: one digit
JobText(j) == << <<"0","1","2","3","4","5","6","7","8","9">>[j + 1] >>

\* os.path.join(UPLOAD_DIR, f"{job_id}_{filename}")
SavedPath(j, filename) == UPLOAD_DIR \o <<"/">> \o JobText(j) \o <<"_">> \o filename

\* the index of the first file the validation loop rejects, 0 when none
FirstRejected(files) ==
    LET bad == {i \in DOMAIN files :
                    \/ Lower(AfterLast(files[i].filename, ".")) \notin AllowedExtensions
                    \/ files[i].size > MAX_UPLOAD_SIZE}
    IN IF bad = {} THEN 0 ELSE CHOOSE i \in bad : \A k \in bad : i <= k

\* upload_documents: each file is validated and saved in turn; `disk_ok`
\* says whether writing to UPLOAD_DIR works
upload_documents(files, disk_ok) ==
    /\ batch.pc = "idle"
    /\ Cardinality(DOMAIN job_status) < MaxJobs
    /\ Room(Len(files))
    /\ LET j == NewJob
           rejected == FirstRejected(files)
       IN IF rejected = 1 \/ (rejected # 0 /\ disk_ok)
          THEN /\ last' = [kind |-> "upload", status |-> 400]
               /\ UNCHANGED <<job_status, tasks>>
          ELSE IF ~disk_ok
          THEN /\ last' = [kind |-> "upload", status |-> 500]
               /\ UNCHANGED <<job_status, tasks>>
          ELSE /\ job_status' =
                    [k \in DOMAIN job_status \cup {j} |->
                        IF k = j
                        THEN [status |-> "processing", progress |-> "0.0",
                              processed |-> 0, total |-> Len(files)]
                        ELSE job_status[k]]
               /\ tasks' = tasks \cup
                    {[job |-> j,
                      file_paths |-> [i \in DOMAIN files |->
                            File(SavedPath(j, files[i].filename),
                                 files[i].readable, files[i].text)]]}
               /\ last' = [kind |-> "upload", status |-> 200, job_id |-> j]
    /\ UNCHANGED <<indexVars, query_history, sessions, cacheVars, input>>

get_status(job_id) ==
    /\ batch.pc = "idle"
    /\ last' = IF job_id \notin DOMAIN job_status
               THEN [kind |-> "status", status |-> 404, job_id |-> job_id]
               ELSE [kind |-> "status", status |-> 200, job_id |-> job_id,
                     body |-> job_status[job_id]]
    /\ UNCHANGED <<indexVars, routeVars, cacheVars, input>>

-----------------------------------------------------------------------------
(* api/routes/database.py and api/routes/query.py                           *)

SchemaKey == "database_schema"

\* cache.set(key, value, ttl) as made by a caller: what it returns or raises,
\* and the record of the call
SetCall(key, value, ttl) ==
    [set |-> TRUE, stored |-> ~CacheCall("set").raised, value |-> value,
     at |-> clock, ttl |-> ttl]

\* connect_database: the test query and the discovery run on the session
\* (`db_ok`: whether they succeed), then the schema goes to the cache; every
\* fault becomes a 400
connect_database(db_ok) ==
    /\ batch.pc = "idle"
    /\ IF ~db_ok
       THEN /\ last' = [kind |-> "connect", status |-> 400]
            /\ UNCHANGED calls
       ELSE /\ calls' = [calls EXCEPT ![SchemaKey] = SetCall(SchemaKey, "schema", SchemaTtl)]
            /\ last' = [kind |-> "connect",
                        status |-> IF CacheCall("set").raised THEN 400 ELSE 200]
    /\ UNCHANGED <<indexVars, routeVars, clock, sql_calls, input>>

\* the schema cache.get would give back: one that was stored and has not
\* expired
SchemaCached ==
    /\ calls[SchemaKey].stored
    /\ clock < calls[SchemaKey].at + calls[SchemaKey].ttl

RequiredFields == {"query", "query_type", "results", "sources", "performance"}

\* QueryResponse(**result): pydantic wants every field without a default
Responds(result) == RequiredFields \subseteq DOMAIN result

\* the history entry the route appends (the timestamp is the clock)
HistoryEntry(request_query, result) ==
    [query |-> request_query, timestamp |-> clock, query_type |-> result.query_type]

\* the route once the engine has returned: the history entry, then the
\* response model; a validation fault is caught and becomes a 500
Respond(result) ==
    IF Responds(result)
    THEN [kind |-> "query", status |-> 200, engine_ran |-> TRUE, body |-> result]
    ELSE [kind |-> "query", status |-> 500, engine_ran |-> TRUE]

-----------------------------------------------------------------------------
(* core/database.py get_db: the session a request borrows.  FastAPI runs   *)
(* the generator up to its yield, runs the handler, and resumes the        *)
(* generator with what the handler did.                                     *)

\* how a handler may leave: it returns, it raises HTTPException, it raises
\* another Exception, or the request is cancelled (a BaseException)
Exits == {"return", "HTTPException", "Exception", "CancelledError"}

\* a variant of Thrown in which nothing is caught
Thrown_uncaught(exit) == "finally"

\* where get_db goes on from its yield: `except Exception` takes what is an
\* Exception, everything goes through `finally`
Thrown(exit) ==
    IF exit \in {"HTTPException", "Exception"} THEN "except" ELSE "finally"

\* async with AsyncSessionLocal() as session: ... yield session
Borrow(r) ==
    /\ sessions[r].pc \in {"none", "done"}
    /\ sessions' = [sessions EXCEPT ![r] = [pc |-> "yield", exit |-> "", log |-> <<"open">>]]
    /\ UNCHANGED <<indexVars, job_status, tasks, query_history, cacheVars, input, last>>

\* the handler is over
Resume(r, exit) ==
    /\ sessions[r].pc = "yield"
    /\ sessions' = [sessions EXCEPT ![r].pc = Thrown(exit), ![r].exit = exit]
    /\ UNCHANGED <<indexVars, job_status, tasks, query_history, cacheVars, input, last>>

\* await session.rollback(), then the exception is raised again
Rollback(r) ==
    /\ sessions[r].pc = "except"
    /\ sessions' = [sessions EXCEPT ![r].pc = "finally", ![r].log = Append(@, "rollback")]
    /\ UNCHANGED <<indexVars, job_status, tasks, query_history, cacheVars, input, last>>

\* finally: await session.close()
Close(r) ==
    /\ sessions[r].pc = "finally"
    /\ sessions' = [sessions EXCEPT ![r].pc = "aexit", ![r].log = Append(@, "close")]
    /\ UNCHANGED <<indexVars, job_status, tasks, query_history, cacheVars, input, last>>

\* the end of the async with block closes the session once more
Leave(r) ==
    /\ sessions[r].pc = "aexit"
    /\ sessions' = [sessions EXCEPT ![r].pc = "done", ![r].log = Append(@, "close")]
    /\ UNCHANGED <<indexVars, job_status, tasks, query_history, cacheVars, input, last>>

\* a variant of query_route that records the request before it does anything
query_route_logs_first(request_query) ==
    /\ batch.pc = "idle"
    /\ query_history' = Append(query_history,
                               HistoryEntry(request_query, [query_type |-> "unknown"]))
    /\ last' = [kind |-> "query", status |-> 500, engine_ran |-> FALSE]
    /\ UNCHANGED <<indexVars, job_status, tasks, sessions, cacheVars, input>>


\* POST /api/query
query_route(request_query) ==
    /\ batch.pc = "idle"
    /\ IF CacheCall("get").raised
       THEN /\ last' = [kind |-> "query", status |-> 500, engine_ran |-> FALSE]
            /\ UNCHANGED query_history
       ELSE IF ~SchemaCached
       THEN /\ last' = [kind |-> "query", status |-> 400, engine_ran |-> FALSE]
            /\ UNCHANGED query_history
       ELSE \E payload \in SqlPayloads, elapsed \in 0..MaxElapsedMs,
               found \in search(documents, keyword_index, request_query, TopK) :
                LET result == process_query(request_query, payload, found, elapsed)
                IN /\ query_history' = Append(query_history,
                                              HistoryEntry(request_query, result))
                   /\ last' = Respond(result)
    /\ UNCHANGED <<indexVars, job_status, tasks, sessions, cacheVars, input>>

\* GET /api/database/schema: nothing catches what cache.get raises
get_schema ==
    /\ batch.pc = "idle"
    /\ last' = IF CacheCall("get").raised THEN [kind |-> "schema", status |-> 500]
               ELSE IF ~SchemaCached THEN [kind |-> "schema", status |-> 404]
               ELSE [kind |-> "schema", status |-> 200]
    /\ UNCHANGED <<indexVars, routeVars, cacheVars, input>>

\* query_history[-50:]
Recent(history) ==
    SubSeq(history, IF Len(history) > HistoryLimit THEN Len(history) - HistoryLimit + 1 ELSE 1,
           Len(history))

get_history ==
    /\ batch.pc = "idle"
    /\ last' = [kind |-> "history", status |-> 200, history |-> Recent(query_history)]
    /\ UNCHANGED <<indexVars, routeVars, cacheVars, input>>

-----------------------------------------------------------------------------
(* Direct calls of the engine, the SQL handler and the cache.               *)

\* QueryEngine(session, schema, doc_processor).process_query(user_query)
ProcessQuery(user_query) ==
    /\ batch.pc = "idle"
    /\ \E payload \in SqlPayloads, elapsed \in 0..MaxElapsedMs,
          found \in search(documents, keyword_index, user_query, TopK) :
            last' = [kind |-> "process_query", query |-> user_query,
                     result |-> process_query(user_query, payload, found, elapsed)]
    /\ UNCHANGED <<indexVars, routeVars, cacheVars, input>>

\* what one call of the handler does, the generator answering `reply` and
\* the session `db`: what the caller gets, whether the generator was called,
\* whether its statement passed validation, whether a statement was executed
HandlerCall(reply, db) ==
    [result |-> _handle_sql_query(HandlerBody(reply, SchemaTables, db)),
     generated |-> FuncRuns,
     valid |-> ~reply.raised /\ _validate_sql(_extract_sql(
                    IF reply.raised THEN <<>> ELSE reply.value))[1],
     executed |-> FuncRuns /\ Executed(reply, SchemaTables) # NoSql]

HandlerCalls == {HandlerCall(reply, db) : reply \in Replies, db \in DbOutcomes}

\* engine._handle_sql_query(user_query)
HandleSql(user_query) ==
    /\ batch.pc = "idle"
    /\ \E h \in HandlerCalls :
        LET call == [query |-> user_query, at |-> clock, result |-> h.result,
                     generated |-> h.generated, valid |-> h.valid,
                     executed |-> h.executed]
        IN /\ sql_calls' = IF sql_calls = <<>> THEN <<call>>
                           ELSE <<sql_calls[Len(sql_calls)], call>>
           /\ last' = [kind |-> "sql_handler", call |-> call]
    /\ UNCHANGED <<indexVars, routeVars, clock, calls, input>>

\* cache.get(key)
CacheGet(key) ==
    /\ batch.pc = "idle"
    /\ last' = [kind |-> "cache.get", key |-> key, result |-> CacheCall("get")]
    /\ UNCHANGED <<indexVars, routeVars, cacheVars, input>>

\* cache.set(key, value, ttl)
CacheSet(key, value, ttl) ==
    /\ batch.pc = "idle"
    /\ calls' = [calls EXCEPT ![key] = SetCall(key, value, ttl)]
    /\ last' = [kind |-> "cache.set", key |-> key, result |-> CacheCall("set")]
    /\ UNCHANGED <<indexVars, routeVars, clock, sql_calls, input>>

Tick ==
    /\ clock + TickSeconds <= MaxClock
    /\ clock' = clock + TickSeconds
    /\ UNCHANGED <<indexVars, routeVars, calls, sql_calls, input, last>>

-----------------------------------------------------------------------------
(* The system: the routes, the background ingestion and the direct calls.   *)

Next ==
    \/ \E file_paths \in FileLists(MaxBatch) : Ingest(file_paths)
    \/ \E t \in tasks : StartTask(t)
    \/ ProcessFile
    \/ \E outcome \in SaveOutcomes : FinishBatch(outcome)
    \/ Restart
    \/ \E files \in UploadLists(MaxBatch), disk_ok \in BOOLEAN : upload_documents(files, disk_ok)
    \/ \E j \in 1..MaxJobs + 1 : get_status(j)
    \/ \E db_ok \in BOOLEAN : connect_database(db_ok)
    \/ \E q \in UserQueries : query_route(q)
    \/ get_schema
    \/ get_history
    \/ \E q \in UserQueries : ProcessQuery(q)

Spec == Init /\ [][Next]_vars

\* Ingestion alone: direct calls of process_documents, uploads and their
\* background tasks, and restarts.
NextIngest ==
    \/ \E file_paths \in FileLists(MaxBatch) : Ingest(file_paths)
    \/ \E t \in tasks : StartTask(t)
    \/ ProcessFile
    \/ \E outcome \in SaveOutcomes : FinishBatch(outcome)
    \/ Restart
    \/ \E files \in UploadLists(MaxBatch), disk_ok \in BOOLEAN : upload_documents(files, disk_ok)

SpecIngest == Init /\ [][NextIngest]_vars

\* The cache and the cached SQL handler under a clock.
NextCache ==
    \/ Tick
    \/ \E k \in CacheKeys : CacheGet(k)
    \/ \E v \in CacheValues, ttl \in {SqlHandlerTtl, SchemaTtl} : CacheSet("k", v, ttl)
    \/ \E q \in {Q_how_many, Q_hello} : HandleSql(q)

SpecCache == Init /\ [][NextCache]_vars


\* The start of the process over an index file it finds: one the processor
\* saved, or one that parses as a JSON object without being what it saves.

RECURSIVE Ingested(_, _)
\* the documents and postings process_documents builds from `start`
Ingested(start, file_paths) ==
    IF file_paths = <<>> THEN start
    ELSE LET r == ProcessOne(start.documents, start.keyword_index, NewResults,
                             Head(file_paths))
         IN Ingested([documents |-> r.documents, keyword_index |-> r.keyword_index],
                     Tail(file_paths))

Stored ==
    {Ingested([documents |-> <<>>, keyword_index |-> <<>>], file_paths) :
        file_paths \in FileLists(MaxBatch)}

\* the index file at start-up
StartFiles ==
    {Missing, Garbage}
    \cup {Saved(x.documents, x.keyword_index) : x \in Stored}
    \cup {[kind |-> "json", data |-> [documents |-> x.documents]] : x \in Stored}
    \cup {[kind |-> "json", data |-> [keyword_index |-> x.keyword_index]] : x \in Stored}
    \cup {[kind |-> "json, keyword_index not an object",
           data |-> [documents |-> x.documents]] : x \in Stored}

\* __init__ up to the call of _load_index: both fields empty
InitLoad ==
    /\ documents = <<>>
    /\ keyword_index = <<>>
    /\ index_file \in StartFiles
    /\ batch = [pc |-> "init"]
    /\ job_status = <<>>
    /\ tasks = {}
    /\ query_history = <<>>
    /\ sessions = NoSessions
    /\ clock = 0
    /\ calls = [k \in CacheKeys |-> NoCall]
    /\ sql_calls = <<>>
    /\ assigned = 0
    /\ input = <<>>
    /\ last = [kind |-> "init"]

\* self._load_index() at the end of __init__; whatever it meets is caught
Load ==
    /\ batch.pc = "init"
    /\ documents' = _load_index(index_file).documents
    /\ keyword_index' = _load_index(index_file).keyword_index
    /\ assigned' = Len(documents')
    /\ batch' = Idle
    /\ last' = [kind |-> "load", result |-> Returned("None")]
    /\ UNCHANGED <<index_file, routeVars, cacheVars, input>>

NextLoad ==
    \/ Load
    \/ \E file_paths \in FileLists(MaxBatch) : Ingest(file_paths)
    \/ ProcessFile
    \/ \E outcome \in SaveOutcomes : FinishBatch(outcome)

SpecLoad == InitLoad /\ [][NextLoad]_vars


\* doc_processor.search(query, top_k) called directly
Search(query, top_k) ==
    /\ batch.pc = "idle"
    /\ \E found \in search(documents, keyword_index, query, top_k) :
            last' = [kind |-> "search", query |-> query, top_k |-> top_k,
                     results |-> found]
    /\ UNCHANGED <<indexVars, routeVars, cacheVars, input>>

MaxTopK == 2

\* Ingestion and search.
NextSearch ==
    \/ \E file_paths \in FileLists(MaxBatch) : Ingest(file_paths)
    \/ ProcessFile
    \/ \E outcome \in SaveOutcomes : FinishBatch(outcome)
    \/ \E q \in UserQueries, top_k \in 1..MaxTopK : Search(q, top_k)

SpecSearch == Init /\ [][NextSearch]_vars


\* The database and query routes with the sessions their requests borrow.
NextRoutes ==
    \/ \E db_ok \in BOOLEAN : connect_database(db_ok)
    \/ \E q \in UserQueries : query_route(q)
    \/ get_schema
    \/ get_history
    \/ \E r \in 1..MaxRequests : Borrow(r)
    \/ \E r \in 1..MaxRequests, exit \in Exits : Resume(r, exit)
    \/ \E r \in 1..MaxRequests : Rollback(r)
    \/ \E r \in 1..MaxRequests : Close(r)
    \/ \E r \in 1..MaxRequests : Leave(r)

SpecRoutes == Init /\ [][NextRoutes]_vars


\* Uploads, their background tasks and status polling in one process
\* lifetime; a task that can run does run.
NextJobs ==
    \/ \E files \in UploadLists(MaxBatch), disk_ok \in BOOLEAN : upload_documents(files, disk_ok)
    \/ \E t \in tasks : StartTask(t)
    \/ ProcessFile
    \/ \E outcome \in SaveOutcomes : FinishBatch(outcome)
    \/ \E j \in 1..MaxJobs + 1 : get_status(j)

\* when the loop of process_documents can take a step: ProcessFile always
\* shortens batch.todo, so this is ENABLED <<ProcessFile>>_vars
LoopCanStep == batch.pc = "loop" /\ batch.todo # <<>>

\* The event loop runs every task that was added, and a task that has started
\* runs to its end: weak fairness of the three steps of a task.  For
\* ProcessFile the condition WF_vars(ProcessFile) is written out with
\* LoopCanStep for its ENABLED.
SpecJobs ==
    /\ Init
    /\ [][NextJobs]_vars
    /\ WF_vars(\E t \in tasks : StartTask(t))
    /\ ([]<>~LoopCanStep \/ []<><<ProcessFile>>_vars)
    /\ WF_vars(\E outcome \in SaveOutcomes : FinishBatch(outcome))


-----------------------------------------------------------------------------
(* SchemaDiscovery._infer_table_purpose alone, over table names built from   *)
(* a few pieces.                                                             *)

P_employee == "Employee information"
P_department == "Department/organizational structure"
P_salary == "Salary and compensation data"
P_document == "Document storage"
P_general == "General data table"

employee_terms == {<<"e","m","p","l","o","y","e","e">>, <<"s","t","a","f","f">>, <<"p","e","r","s","o","n","n","e","l">>, <<"e","m","p">>}
department_terms == {<<"d","e","p","a","r","t","m","e","n","t">>, <<"d","e","p","t">>, <<"d","i","v","i","s","i","o","n">>}
salary_terms == {<<"s","a","l","a","r","y">>, <<"c","o","m","p","e","n","s","a","t","i","o","n">>, <<"p","a","y">>}
document_terms == {<<"d","o","c","u","m","e","n","t">>, <<"f","i","l","e">>, <<"a","t","t","a","c","h","m","e","n","t">>}

\* any(term in name_lower for term in terms)
AnyTermIn(terms, name_lower) == \E term \in terms : Contains(name_lower, term)

\* a variant of _infer_table_purpose that tries the department terms first
_infer_table_purpose_department_first(table_name) ==
    LET name_lower == Lower(table_name)
    IN IF AnyTermIn(department_terms, name_lower) THEN P_department
       ELSE IF AnyTermIn(employee_terms, name_lower) THEN P_employee
       ELSE IF AnyTermIn(salary_terms, name_lower) THEN P_salary
       ELSE IF AnyTermIn(document_terms, name_lower) THEN P_document
       ELSE P_general

\* the if/elif chain on table_name.lower(); the columns are not used
_infer_table_purpose(table_name) ==
    LET name_lower == Lower(table_name)
    IN IF AnyTermIn(employee_terms, name_lower) THEN P_employee
       ELSE IF AnyTermIn(department_terms, name_lower) THEN P_department
       ELSE IF AnyTermIn(salary_terms, name_lower) THEN P_salary
       ELSE IF AnyTermIn(document_terms, name_lower) THEN P_document
       ELSE P_general

MaxNamePieces == 2  \* pieces joined into one table name

NamePieces ==
    { <<"e","m","p","l","o","y","e","e","s">>,
      <<"S","t","a","f","f">>,
      <<"p","e","r","s","o","n","n","e","l">>,
      <<"e","m","p">>,
      <<"D","e","p","a","r","t","m","e","n","t","s">>,
      <<"d","e","p","t">>,
      <<"d","i","v","i","s","i","o","n">>,
      <<"s","a","l","a","r","y">>,
      <<"C","O","M","P","E","N","S","A","T","I","O","N">>,
      <<"p","a","y">>,
      <<"d","o","c","u","m","e","n","t","s">>,
      <<"f","i","l","e">>,
      <<"a","t","t","a","c","h","m","e","n","t">>,
      <<"t","e","m","p">>,
      <<"o","r","d","e","r","s">>,
      <<"l","o","g">> }

TableNames ==
    {Join(ps, <<"_">>) : ps \in UNION {[1..k -> NamePieces] : k \in 1..MaxNamePieces}}

InitPurpose == Boot /\ input \in TableNames

\* discovery._infer_table_purpose(input, columns)
InferPurpose ==
    /\ last' = [kind |-> "purpose", table_name |-> input,
                purpose |-> _infer_table_purpose(input)]
    /\ UNCHANGED <<indexVars, routeVars, cacheVars, input>>

NextPurpose == InferPurpose

SpecPurpose == InitPurpose /\ [][NextPurpose]_vars


-----------------------------------------------------------------------------
(* TextToSQLConverter._validate_sql and _optimize_sql alone, over statements *)
(* built from a text and an ending.                                          *)

StatementTexts ==
    { <<"S","E","L","E","C","T"," ","*"," ","F","R","O","M"," ","t">>,
      <<"s","e","l","e","c","t"," ","l","i","m","i","t","_","v","a","l","u","e"," ","f","r","o","m"," ","t">>,
      <<"S","E","L","E","C","T"," ","*"," ","F","R","O","M"," ","l","i","m","i","t","s">>,
      <<"S","E","L","E","C","T"," ","*"," ","F","R","O","M"," ","t"," ","L","I","M","I","T"," ","5">>,
      <<"s","e","l","e","c","t"," ","*"," ","f","r","o","m"," ","t"," ","l","i","m","i","t"," ","5">>,
      <<"D","R","O","P"," ","T","A","B","L","E"," ","t">>,
      <<"S","E","L","E","C","T"," ","n","a","m","e"," ","F","R","O","M"," ","t"," ","W","H","E","R","E"," ","i","d"," ","="," ","1">>,
      <<" ","S","E","L","E","C","T"," ","1">>,
      <<"S","E","L","E","C","T"," ","u","p","d","a","t","e","d"," ","F","R","O","M"," ","t">> }

StatementEndings == { <<>>, <<";">>, <<";",";">>, <<" ">>, <<";"," ">> }

Statements == {t \o e : t \in StatementTexts, e \in StatementEndings}

InitOptimize == Boot /\ input \in Statements

\* converter._validate_sql(input)
Validate ==
    /\ last.kind = "start"
    /\ last' = [kind |-> "validate", sql |-> input, is_valid |-> _validate_sql(input)[1]]
    /\ UNCHANGED <<indexVars, routeVars, cacheVars, input>>

\* converter._optimize_sql(sql) of a statement that was found valid
Optimize ==
    /\ last.kind = "validate"
    /\ last.is_valid
    /\ last' = [kind |-> "optimize", sql |-> last.sql, times |-> 1,
                result |-> _optimize_sql(last.sql)]
    /\ UNCHANGED <<indexVars, routeVars, cacheVars, input>>

\* converter._optimize_sql of what _optimize_sql returned
OptimizeAgain ==
    /\ last.kind = "optimize"
    /\ last.times = 1
    /\ last' = [kind |-> "optimize", sql |-> last.sql, times |-> 2,
                once |-> last.result, result |-> _optimize_sql(last.result)]
    /\ UNCHANGED <<indexVars, routeVars, cacheVars, input>>

NextOptimize == Validate \/ Optimize \/ OptimizeAgain

SpecOptimize == InitOptimize /\ [][NextOptimize]_vars


-----------------------------------------------------------------------------
(* The classifier alone, over queries built from a few phrases.             *)

QueryPieces ==
    { <<"l","i","s","t"," ","e","m","p","l","o","y","e","e","s"," ","w","i","t","h">>,
      <<"p","y","t","h","o","n">>,
      <<"s","k","i","l","l","s">>,
      <<"h","o","w"," ","m","a","n","y">>,
      <<"C","o","u","n","t">>,
      <<"J","a","v","a","S","c","r","i","p","t">>,
      <<"h","e","l","l","o">>,
      <<"L","I","S","T"," ","A","L","L">> }

ClassifierQueries ==
    {Join(ps, <<" ">>) : ps \in UNION {[1..k -> QueryPieces] : k \in 1..MaxQueryPieces}}

Q_list_employees ==
    <<"l","i","s","t"," ","e","m","p","l","o","y","e","e","s"," ","w","i","t","h"," ",
      "p","y","t","h","o","n"," ","s","k","i","l","l","s">>

InitClassify == Boot /\ input \in ClassifierQueries

\* engine._classify_query(input)
Classify ==
    /\ last' = [kind |-> "classify", query |-> input, result |-> _classify_query(input)]
    /\ UNCHANGED <<indexVars, routeVars, cacheVars, input>>

NextClassify == Classify

SpecClassify == InitClassify /\ [][NextClassify]_vars

-----------------------------------------------------------------------------
(* Properties.                                                              *)

\* C1: the SQL handler executes a statement only when the generator reported
\* no error and the statement passed validation, and in every other case it
\* returns an {error} payload without executing anything.
C1_ExecutesOnlyValidElseError ==
    last.kind = "sql_handler" =>
        /\ last.call.executed => last.call.valid
        /\ ~last.call.executed =>
                /\ ~last.call.result.raised
                /\ "error" \in DOMAIN last.call.result.value

\* C2: classify returns one of sql, document, hybrid, as the two phrase
\* counts decide: hybrid exactly when both are positive, document exactly
\* when only the document count is, sql exactly when the document count is 0;
\* and classifying reads and writes no state.
C2_ClassifyTable ==
    /\ [](last.kind = "classify" =>
            LET s == sql_score(last.query)
                d == doc_score(last.query)
            IN /\ last.result \in {"sql", "document", "hybrid"}
               /\ last.result = "hybrid" <=> (s > 0 /\ d > 0)
               /\ last.result = "document" <=> (s = 0 /\ d > 0)
               /\ last.result = "sql" <=> d = 0)
    /\ [][last'.kind = "classify" =>
            UNCHANGED <<indexVars, routeVars, cacheVars, input>>]_vars

C2_Witness ==
    /\ last.kind = "classify"
    /\ last.result = "document"
    /\ sql_score(last.query) = 0
    /\ doc_score(last.query) > 1

\* C3, as claimed: classify("list employees with python skills") is hybrid.
C3_ListEmployeesIsHybrid ==
    (last.kind = "classify" /\ last.query = Q_list_employees) => last.result = "hybrid"

\* C3, amended: classify("list employees with python skills") is document:
\* no phrase of the SQL-intent list is in it, two of the document-intent list
\* are.
C3_ListEmployeesIsDocument ==
    (last.kind = "classify" /\ last.query = Q_list_employees) =>
        /\ last.result = "document"
        /\ sql_score(last.query) = 0
        /\ doc_score(last.query) = 2

C3_Witness == last.kind = "classify" /\ last.query = Q_list_employees

\* C4: cache.get(k) returns the value of the latest set(k, v, ttl) while its
\* TTL has not elapsed, and is a miss (None) after that and for a key never
\* set.
C4_CacheRoundTrip ==
    last.kind = "cache.get" =>
        LET c == calls[last.key]
        IN IF c.set /\ clock < c.at + c.ttl
           THEN ~last.result.raised /\ last.result.value = c.value
           ELSE ~last.result.raised /\ last.result.value = "None"

\* C5: of two calls of the SQL handler with the same query, the second
\* within 300 seconds of the first, the second returns the payload of the
\* first without running the generator or the database.
C5_SecondCallServedFromCache ==
    (/\ Len(sql_calls) = 2
     /\ sql_calls[1].query = sql_calls[2].query
     /\ sql_calls[2].at < sql_calls[1].at + SqlHandlerTtl) =>
        /\ ~sql_calls[2].result.raised
        /\ ~sql_calls[1].result.raised
        /\ sql_calls[2].result.value = sql_calls[1].result.value
        /\ ~sql_calls[2].generated
        /\ ~sql_calls[2].executed

\* C6: when the engine faults, the query endpoint answers with a valid
\* response object that has query_type "unknown" and an error field, never
\* with an error status.
C6_EndpointAbsorbsEngineFaults ==
    (last.kind = "process_query" /\ last.result.query_type = "unknown") =>
        /\ "error" \in DOMAIN last.result
        /\ Respond(last.result).status = 200

\* C7: every result process_query returns has performance.response_time,
\* the degraded result of a fault included.
C7_AlwaysTimed ==
    last.kind = "process_query" =>
        /\ "performance" \in DOMAIN last.result
        /\ "response_time" \in DOMAIN last.result.performance

\* C8: a query made while no schema is cached is answered 400 and the
\* engine is not run.
C8_NoSchemaIs400 ==
    (last.kind = "query" /\ ~SchemaCached) =>
        /\ last.status = 400
        /\ ~last.engine_ran

\* C9: process_documents returns, and accounts for every path once: at every
\* point of the loop processed + failed + the paths still to come is the
\* number of paths and the per-file list has `processed` entries; on return
\* total_documents is the length of the document list and processed counts
\* every path whose text could be extracted, whatever failed before it.
C9_BatchAccountsForEveryFile ==
    /\ batch.pc = "loop" =>
            /\ batch.results.processed + batch.results.failed + Len(batch.todo)
                    = Len(batch.file_paths)
            /\ Len(batch.results.documents) = batch.results.processed
    /\ last.kind = "process_documents" =>
            /\ ~last.result.raised
            /\ last.result.value.processed + last.result.value.failed
                    = Len(last.file_paths)
            /\ Len(last.result.value.documents) = last.result.value.processed
            /\ last.result.value.total_documents = Len(documents)
            /\ last.result.value.processed =
                    Cardinality({i \in DOMAIN last.file_paths :
                                    ~_extract_text(last.file_paths[i]).raised})

C9_Witness ==
    /\ last.kind = "process_documents"
    /\ Len(last.file_paths) = 2
    /\ _extract_text(last.file_paths[1]).raised
    /\ last.result.value.failed = 1
    /\ last.result.value.processed = 1

\* C10: the iteration over a file whose extraction fails (unsupported
\* extension or extraction fault) leaves processed, the per-file list, the
\* document list and every posting list as they were, and adds one to failed.
C10_FailedFileChangesNothing ==
    [][(/\ batch.pc = "loop"
        /\ batch.todo # <<>>
        /\ _extract_text(Head(batch.todo)).raised
        /\ batch' # batch) =>
            /\ batch'.results.processed = batch.results.processed
            /\ batch'.results.failed = batch.results.failed + 1
            /\ batch'.results.documents = batch.results.documents
            /\ documents' = documents
            /\ keyword_index' = keyword_index]_vars

C10_Witness ==
    /\ batch.pc = "loop"
    /\ batch.file_paths = <<F_txt, F_pdf>>
    /\ batch.todo = <<>>
    /\ batch.results.failed = 1
    /\ batch.results.processed = 1
    /\ Len(documents) = 1
    /\ DOMAIN keyword_index # {}


\* C11: document ids are dense and sequential through ingestion, saving and
\* reloading: the document at position i has id i, a document that stays in
\* the list keeps its id and position, and an id that was given out once is
\* never given to another document.
C11_IdsDenseNeverReused ==
    /\ [](\A i \in DOMAIN documents : documents[i].id = i - 1)
    /\ [][(\A i \in DOMAIN documents \cap DOMAIN documents' :
                    documents'[i] = documents[i])
           /\ (\A j \in DOMAIN documents' \ DOMAIN documents :
                    documents'[j].id >= assigned)]_vars


\* C12: after _load_index either the document list and the posting map are
\* both the ones stored in the index file, or both are empty; and the load
\* does not raise.
C12_LoadAllOrNothing ==
    last.kind = "load" =>
        /\ ~last.result.raised
        /\ \/ /\ index_file.kind = "json"
              /\ {"documents", "keyword_index"} \subseteq DOMAIN index_file.data
              /\ documents = index_file.data.documents
              /\ keyword_index = index_file.data.keyword_index
           \/ /\ documents = <<>>
              /\ keyword_index = <<>>


\* C13: search returns at most top_k documents, each with the number of
\* distinct query keywords it is posted under as its score, by score
\* descending and, at equal score, by document id ascending.
C13_SearchRankedTiesById ==
    last.kind = "search" =>
        LET r == last.results
            kws == _extract_keywords(last.query)
            PostedUnder(d) ==
                {kw \in kws : kw \in DOMAIN keyword_index /\
                    \E i \in DOMAIN keyword_index[kw] : keyword_index[kw][i] = d}
        IN /\ Len(r) <= last.top_k
           /\ \A i \in DOMAIN r : r[i].match_score = Cardinality(PostedUnder(r[i].id))
           /\ \A i, j \in DOMAIN r : i < j =>
                    \/ r[i].match_score > r[j].match_score
                    \/ r[i].match_score = r[j].match_score /\ r[i].id < r[j].id


C17_SessionReleasedOnEveryPath ==
    \A r \in 1..MaxRequests :
        LET s == sessions[r]
            Closes == {i \in DOMAIN s.log : s.log[i] = "close"}
            Rollbacks == {i \in DOMAIN s.log : s.log[i] = "rollback"}
        IN /\ s.pc = "done" =>
                /\ s.log[1] = "open"
                /\ Cardinality({i \in DOMAIN s.log : s.log[i] = "open"}) = 1
                /\ Closes # {}
                /\ Len(s.log) \in Closes
                /\ s.exit = "Exception" =>
                        /\ Rollbacks # {}
                        /\ \A i \in Rollbacks, j \in Closes : i < j
           /\ \A i \in Closes, j \in DOMAIN s.log : i < j => s.log[j] = "close"

C17_Witness ==
    /\ sessions[1].pc = "done"
    /\ sessions[1].exit = "Exception"
    /\ sessions[1].log = <<"open", "rollback", "close", "close">>
    /\ sessions[2].pc = "done"
    /\ sessions[2].exit = "return"
    /\ sessions[2].log = <<"open", "close", "close">>


\* C15: an accepted upload creates one job record, in status processing,
\* before its id is returned; the record moves once to completed or failed,
\* in the step that ends the job's background task, and is not changed
\* after that; an upload that is refused creates none; get_status answers
\* 404 exactly for ids without a record; and every job gets to completed or
\* failed.
C15_JobLifecycle ==
    /\ [](last.kind = "upload" /\ last.status = 200 =>
            last.job_id \in DOMAIN job_status)
    /\ [](last.kind = "status" =>
            (last.status = 404 <=> last.job_id \notin DOMAIN job_status))
    /\ [][\A j \in DOMAIN job_status :
            /\ j \in DOMAIN job_status'
            /\ job_status[j].status \in {"completed", "failed"} =>
                    job_status'[j] = job_status[j]
            /\ job_status'[j] # job_status[j] =>
                    /\ job_status[j].status = "processing"
                    /\ job_status'[j].status \in {"completed", "failed"}
                    /\ batch.pc = "loop" /\ batch.job = j /\ batch'.pc = "idle"]_vars
    /\ [][IF last'.kind = "upload" /\ last'.status = 200 /\ tasks' # tasks
          THEN /\ DOMAIN job_status' \ DOMAIN job_status = {last'.job_id}
               /\ job_status'[last'.job_id].status = "processing"
          ELSE DOMAIN job_status' \ DOMAIN job_status = {}]_vars
    /\ \A j \in 1..MaxJobs :
            (j \in DOMAIN job_status) ~>
                (j \in DOMAIN job_status /\ job_status[j].status \in {"completed", "failed"})

C15_Witness ==
    /\ last.kind = "status"
    /\ last.status = 200
    /\ last.body.status = "completed"
    /\ last.body.details.failed = 1
    /\ last.body.total = 2



\* the term groups as the claim lists them, in its order
ListedTerms ==
    << {<<"e","m","p","l","o","y","e","e">>, <<"s","t","a","f","f">>, <<"p","e","r","s","o","n","n","e","l">>}, {<<"d","e","p","a","r","t","m","e","n","t">>, <<"d","i","v","i","s","i","o","n">>}, {<<"s","a","l","a","r","y">>, <<"c","o","m","p","e","n","s","a","t","i","o","n">>, <<"p","a","y">>}, {<<"d","o","c","u","m","e","n","t">>, <<"f","i","l","e">>, <<"a","t","t","a","c","h","m","e","n","t">>} >>
\* the term groups with the two abbreviations the code also matches
MatchedTerms ==
    << {<<"e","m","p","l","o","y","e","e">>, <<"s","t","a","f","f">>, <<"p","e","r","s","o","n","n","e","l">>, <<"e","m","p">>}, {<<"d","e","p","a","r","t","m","e","n","t">>, <<"d","e","p","t">>, <<"d","i","v","i","s","i","o","n">>}, {<<"s","a","l","a","r","y">>, <<"c","o","m","p","e","n","s","a","t","i","o","n">>, <<"p","a","y">>}, {<<"d","o","c","u","m","e","n","t">>, <<"f","i","l","e">>, <<"a","t","t","a","c","h","m","e","n","t">>} >>
Purposes == <<P_employee, P_department, P_salary, P_document>>

\* the purpose of the first group, in order, that has a term in the
\* lowercased name; the general purpose when no group has one
FirstMatch(groups, table_name) ==
    LET hits == {g \in DOMAIN groups :
                    \E term \in groups[g] : Contains(Lower(table_name), term)}
    IN IF hits = {} THEN P_general
       ELSE Purposes[CHOOSE g \in hits : \A h \in hits : g <= h]

\* C16, as claimed: the purpose of a table is that of the first of the groups
\* employee/staff/personnel, department/division, salary/compensation/pay,
\* document/file/attachment with a term in the lowercased name, and the
\* general purpose when the name has none of these terms.
C16_PurposeByListedTerms ==
    last.kind = "purpose" => last.purpose = FirstMatch(ListedTerms, last.table_name)

\* C16, amended: the same with the groups employee/staff/personnel/emp and
\* department/dept/division: a name with emp or dept in it is not a general
\* table, and emp in a name decides before any later group.
C16_PurposeByMatchedTerms ==
    last.kind = "purpose" => last.purpose = FirstMatch(MatchedTerms, last.table_name)

\* a name with terms of two groups, and only an abbreviation of the first
C16_Witness ==
    /\ last.kind = "purpose"
    /\ last.table_name = <<"d","e","p","t","_","e","m","p">>
    /\ last.purpose = P_employee


\* the word LIMIT, in either case, with no word character next to it
HasLimitClause(sql) ==
    \E i \in 1..(Len(sql) - Len(S_LIMIT) + 1) :
        /\ SubSeq(Upper(sql), i, i + Len(S_LIMIT) - 1) = S_LIMIT
        /\ i = 1 \/ ~IsWordChar(sql[i - 1])
        /\ i + Len(S_LIMIT) > Len(sql) \/ ~IsWordChar(sql[i + Len(S_LIMIT)])

S_select_star_t == <<"S","E","L","E","C","T"," ","*"," ","F","R","O","M"," ","t">>

\* C18: what the optimizer returns for a statement that passed validation has
\* a LIMIT clause; a statement without one gets " LIMIT 100;" in place of its
\* trailing semicolons (SELECT * FROM t becomes SELECT * FROM t LIMIT 100;),
\* a statement with one is returned as it is, and optimizing the result again
\* returns it unchanged.
C18_OptimizerEnsuresLimit ==
    last.kind = "optimize" =>
        /\ HasLimitClause(last.result)
        /\ last.times = 1 =>
            /\ HasLimitClause(last.sql) => last.result = last.sql
            /\ ~HasLimitClause(last.sql) =>
                    last.result = RStripOf(last.sql, {";"}) \o S_LIMIT_100
            /\ last.sql = S_select_star_t => last.result = S_select_star_t \o S_LIMIT_100
        /\ last.times = 2 => last.result = last.once


\* the posting list of a keyword; a keyword without an entry has none
Posting(k) == IF k \in DOMAIN keyword_index THEN keyword_index[k] ELSE <<>>

AllKeywords ==
    DOMAIN keyword_index \cup UNION {documents[i].keywords : i \in DOMAIN documents}

\* C19: in every state the ingestion reaches from an empty index, restarts on
\* its own saved file included, document id d is in the posting list of
\* keyword k exactly when k is a keyword of document d, every posted id is
\* below the number of documents, and every posting list is strictly
\* increasing.
C19_PostingsAgreeWithDocuments ==
    \A k \in AllKeywords :
        /\ \A i \in DOMAIN documents :
                (\E p \in DOMAIN Posting(k) : Posting(k)[p] = documents[i].id)
                    <=> k \in documents[i].keywords
        /\ \A p \in DOMAIN Posting(k) : Posting(k)[p] \in 0..(Len(documents) - 1)
        /\ \A p, r \in DOMAIN Posting(k) : p < r => Posting(k)[p] < Posting(k)[r]

\* the same file was ingested twice and a keyword of it is posted for both
C19_Witness ==
    /\ Len(documents) = 2
    /\ documents[1].file = documents[2].file
    /\ documents[1].keywords # {}
    /\ \A k \in documents[1].keywords : Posting(k) = <<0, 1>>
    /\ batch.pc = "idle"


\* C20: when a call of the SQL handler ends in an {error} payload (here: the
\* generator reported an error or the statement was rejected), a second call
\* with the same query within 300 seconds returns that same {error} payload
\* without running the generator or the database.
C20_ErrorPayloadServedFromCache ==
    (/\ Len(sql_calls) = 2
     /\ sql_calls[1].query = sql_calls[2].query
     /\ sql_calls[2].at < sql_calls[1].at + SqlHandlerTtl
     /\ ~sql_calls[1].valid) =>
        /\ ~sql_calls[1].result.raised
        /\ "error" \in DOMAIN sql_calls[1].result.value
        /\ ~sql_calls[2].result.raised
        /\ sql_calls[2].result.value = sql_calls[1].result.value
        /\ ~sql_calls[2].generated
        /\ ~sql_calls[2].executed


=============================================================================
